---------------------------- MODULE Spec2Model ----------------------------
(* Model of the two ingestion scripts big_query_insert.py and              *)
(* mysql_insert.py: the per-column type coercers, the destination type     *)
(* mapping, and insert_database (schema step, max-id read, append) run by  *)
(* concurrent callers against one destination table.                       *)
(*                                                                         *)
(* Text is a sequence of one-character strings, so that searching,         *)
(* replacing, parsing and formatting are computed character by character.  *)
(* A cell is a record [k |-> kind, v |-> payload]:                         *)
(*   "nan" float NaN, "none" Python None, "nat" NaT, "na" pd.NA,           *)
(*   "float" v = the value in tenths, "fhuge" an integral float beyond the *)
(*   signed 64-bit range (1e19), "int", "bool", "str" v = text,            *)
(*   "list" v = a sequence of integers, "ts" v = <<Y, M, D, h, m, s>>,     *)
(*   "td" v = a duration in tenths of a second.                            *)
(* A column is [name, dtype, values]; a DataFrame is [cols, n].            *)
EXTENDS Integers, Sequences, FiniteSets, TLC

VARIABLES
    backend,           \* "bq" or "mysql": the script the callers run
    tblExists,         \* the destination table exists
    schema,            \* its columns in order: <<[name, type], ...>>
    rows,              \* its rows in append order: <<[id, call, idx, cols], ...>>
    autoInc,           \* MySQL: the table's AUTO_INCREMENT counter
    ddlLog,            \* the create-table / add-column calls issued so far
    nCalls,            \* insert_database calls started so far
    pc,                \* per caller: where it stands in insert_database
    callNo,            \* per caller: the number of its current call
    data_frame,        \* per caller: the argument of its current call
    df,                \* per caller: the cleaned and coerced copy
    probe,             \* per caller: outcome of the table-existence probe
    existing_columns,  \* per caller (MySQL): names fetched by DESCRIBE
    colIdx,            \* per caller (MySQL): position in the add-column loop
    max_id,            \* per caller: the maximum id it read
    snap,              \* per caller: number of rows the max-id query saw
    start_idx,         \* per caller (MySQL): start of the next batch
    result,            \* per caller: what the call returned
    coercer,           \* coercer under test: "bq", "mysql" or "none"
    orig,              \* the frame as drawn
    prev,              \* the frame before the last application
    frame,             \* the frame after the last application
    passes,            \* number of applications of the coercer so far
    int_col,           \* the integer column handed to the type mappers
    sql_type           \* the tags they returned, NoType before the call

machineVars == <<backend, tblExists, schema, rows, autoInc, ddlLog, nCalls, pc,
                 callNo, data_frame, df, probe, existing_columns, colIdx,
                 max_id, snap, start_idx, result>>
coerceVars == <<coercer, orig, prev, frame, passes>>
typeVars == <<int_col, sql_type>>
vars == <<machineVars, coerceVars, typeVars>>

-----------------------------------------------------------------------------
(* Bounds of the model. *)
MaxRows == 3        \* rows of a column drawn for the coercers
MaxCalls == 3       \* insert_database calls in one behaviour
MaxPasses == 2      \* applications of a coercer to one frame
MaxBatches == 2     \* batches of the largest frame given to insert_database

Procs == {1, 2}
Backends == {"bq", "mysql"}

-----------------------------------------------------------------------------
(* Text helpers. *)
Digits == <<"0", "1", "2", "3", "4", "5", "6", "7", "8", "9">>
IsDigit(c) == \E d \in 1..10 : Digits[d] = c
DigitVal(c) == (CHOOSE d \in 1..10 : Digits[d] = c) - 1

RECURSIVE NatRepr(_)
NatRepr(n) == IF n < 10 THEN <<Digits[n + 1]>>
              ELSE NatRepr(n \div 10) \o <<Digits[(n % 10) + 1]>>

\* str(int)
IntRepr(n) == IF n < 0 THEN <<"-">> \o NatRepr(-n) ELSE NatRepr(n)

\* str(float) of a value given in tenths: 105 -> "10.5", 100 -> "10.0"
FloatRepr(t) ==
    LET a == IF t < 0 THEN -t ELSE t
    IN  (IF t < 0 THEN <<"-">> ELSE <<>>) \o NatRepr(a \div 10) \o <<".">>
            \o <<Digits[(a % 10) + 1]>>

\* str(1e19)
HugeRepr == <<"1", "e", "+", "1", "9">>

RECURSIVE JoinInts(_)
JoinInts(s) == IF s = <<>> THEN <<>>
               ELSE IF Len(s) = 1 THEN IntRepr(s[1])
               ELSE IntRepr(s[1]) \o <<",", " ">> \o JoinInts(Tail(s))

\* str(list)
ListRepr(s) == <<"[">> \o JoinInts(s) \o <<"]">>

RECURSIVE DigitsVal(_)
DigitsVal(s) == IF s = <<>> THEN 0
                ELSE 10 * DigitsVal(SubSeq(s, 1, Len(s) - 1)) + DigitVal(s[Len(s)])

\* zero-padded decimal of width w
RECURSIVE Pad(_, _)
Pad(n, w) == IF w = 0 THEN <<>> ELSE Pad(n \div 10, w - 1) \o <<Digits[(n % 10) + 1]>>

UpperCase == <<"A", "B", "C", "D", "E", "F", "G", "H", "I", "J", "K", "L", "M",
               "N", "O", "P", "Q", "R", "S", "T", "U", "V", "W", "X", "Y", "Z">>
LowerCase == <<"a", "b", "c", "d", "e", "f", "g", "h", "i", "j", "k", "l", "m",
               "n", "o", "p", "q", "r", "s", "t", "u", "v", "w", "x", "y", "z">>
LowerChar(c) == IF \E i \in 1..26 : UpperCase[i] = c
                THEN LowerCase[CHOOSE i \in 1..26 : UpperCase[i] = c]
                ELSE c
Lower(s) == [i \in 1..Len(s) |-> LowerChar(s[i])]

\* re.search of a literal pattern
Contains(s, pat) ==
    \E i \in 1..(Len(s) - Len(pat) + 1) : SubSeq(s, i, i + Len(pat) - 1) = pat

-----------------------------------------------------------------------------
(* Cells, columns and frames. *)
Cell(k, v) == [k |-> k, v |-> v]
NaN == Cell("nan", 0)
None == Cell("none", 0)
NaT == Cell("nat", 0)
NA == Cell("na", 0)
Str(s) == Cell("str", s)

\* pd.isnull
IsNull(c) == c.k \in {"nan", "none", "nat", "na"}

Column(name, dtype, values) == [name |-> name, dtype |-> dtype, values |-> values]
Frame(cols, n) == [cols |-> cols, n |-> n]
EmptyFrame == Frame(<<>>, 0)

RECURSIVE SelectSeq2(_, _)
SelectSeq2(s, keep) ==
    IF s = <<>> THEN <<>>
    ELSE (IF keep[1] THEN <<s[1]>> ELSE <<>>)
            \o SelectSeq2(Tail(s), Tail(keep))

\* Series.dropna()
DropNa(values) == SelectSeq(values, LAMBDA c : ~IsNull(c))

\* str(x) of one cell
StrOf(c) ==
    CASE c.k = "nan"   -> <<"n", "a", "n">>
      [] c.k = "none"  -> <<"N", "o", "n", "e">>
      [] c.k = "nat"   -> <<"N", "a", "T">>
      [] c.k = "na"    -> <<"<", "N", "A", ">">>
      [] c.k = "float" -> FloatRepr(c.v)
      [] c.k = "fhuge" -> HugeRepr
      [] c.k = "int"   -> IntRepr(c.v)
      [] c.k = "bool"  -> IF c.v THEN <<"T", "r", "u", "e">>
                                 ELSE <<"F", "a", "l", "s", "e">>
      [] c.k = "str"   -> c.v
      [] c.k = "list"  -> ListRepr(c.v)
      [] c.k = "ts"    -> Pad(c.v[1], 4) \o <<"-">> \o Pad(c.v[2], 2) \o <<"-">>
                            \o Pad(c.v[3], 2) \o <<" ">> \o Pad(c.v[4], 2) \o <<":">>
                            \o Pad(c.v[5], 2) \o <<":">> \o Pad(c.v[6], 2)

\* Series.astype(str): every value, nulls included, becomes its str()
AsTypeStr(col) ==
    Column(col.name, "object", [i \in 1..Len(col.values) |-> Str(StrOf(col.values[i]))])

(* pd.to_datetime(..., format="%Y-%m-%d %H:%M:%S", errors='coerce') on one  *)
(* text: six digit runs separated by exactly - - space : :, a four-digit   *)
(* year, one or two digits for the other fields, each within its range.    *)
RECURSIVE Runs(_, _, _)
\* <<digit runs, separators>> of s, scanned left to right
Runs(s, cur, acc) ==
    IF s = <<>> THEN <<Append(acc[1], cur), acc[2]>>
    ELSE IF IsDigit(s[1]) THEN Runs(Tail(s), Append(cur, s[1]), acc)
    ELSE Runs(Tail(s), <<>>, <<Append(acc[1], cur), Append(acc[2], s[1])>>)

IsLeap(y) == (y % 4 = 0 /\ y % 100 # 0) \/ y % 400 = 0
DaysIn(y, m) == IF m = 2 THEN (IF IsLeap(y) THEN 29 ELSE 28)
                ELSE IF m \in {4, 6, 9, 11} THEN 30 ELSE 31

ParseTs(s) ==
    LET r == Runs(s, <<>>, <<(<<>>), (<<>>)>>)
        f == r[1]
        shaped == /\ r[2] = <<"-", "-", " ", ":", ":">>
                  /\ Len(f[1]) = 4
                  /\ \A i \in 2..6 : Len(f[i]) \in {1, 2}
        y == DigitsVal(f[1])
        mo == DigitsVal(f[2])
        d == DigitsVal(f[3])
        h == DigitsVal(f[4])
        mi == DigitsVal(f[5])
        se == DigitsVal(f[6])
    IN  IF shaped /\ mo \in 1..12 /\ d >= 1 /\ d <= DaysIn(y, mo)
            /\ h <= 23 /\ mi <= 59 /\ se <= 59
        THEN Cell("ts", <<y, mo, d, h, mi, se>>)
        ELSE NaT

\* to_datetime of one cell of an object column
ToDatetime(c) ==
    IF IsNull(c) THEN NaT
    ELSE IF c.k = "ts" THEN c
    ELSE ParseTs(StrOf(c))

\* Series.dt.strftime('%Y-%m-%d %H:%M:%S') of one cell: NaT becomes NaN
StrfTime(c) == IF c.k = "ts" THEN Str(StrOf(c)) ELSE NaN

IsComposite(c) == c.k = "list"

\* the object branch reformatting only when every value parses
ConvertObjectAllParse(col) ==
    LET converted_col == [i \in 1..Len(col.values) |-> ToDatetime(col.values[i])]
    IN  IF \A i \in 1..Len(col.values) : ~IsNull(converted_col[i])
        THEN Column(col.name, "object",
                    [i \in 1..Len(col.values) |-> StrfTime(converted_col[i])])
        ELSE AsTypeStr(col)

\* the object branch of both coercers
ConvertObject(col) ==
    LET sample_value == DropNa(col.values)[1]
        vals == IF IsComposite(sample_value)
                THEN [i \in 1..Len(col.values) |->
                        IF col.values[i] # None THEN Str(StrOf(col.values[i]))
                        ELSE None]
                ELSE col.values
        c1 == Column(col.name, "object", vals)
        converted_col == [i \in 1..Len(vals) |-> ToDatetime(vals[i])]
    IN  IF \E i \in 1..Len(vals) : ~IsNull(converted_col[i])
        THEN Column(col.name, "object",
                    [i \in 1..Len(vals) |-> StrfTime(converted_col[i])])
        ELSE AsTypeStr(c1)

\* x.is_integer() of a float
IsIntegral(c) == c.k = "fhuge" \/ (c.k = "float" /\ c.v % 10 = 0)

\* Series.astype('Int64') of a float column; raises when a value is outside
\* the signed 64-bit range, and the coercer's outer except then stringifies
AsInt64(col) ==
    IF \E i \in 1..Len(col.values) : col.values[i].k = "fhuge"
    THEN AsTypeStr(col)
    ELSE Column(col.name, "Int64",
                [i \in 1..Len(col.values) |->
                    IF IsNull(col.values[i]) THEN NA
                    ELSE Cell("int", col.values[i].v \div 10)])

\* the float branch with MySQL's policy on both backends
ConvertFloatKeep(b, col) ==
    IF \A i \in 1..Len(col.values) :
            IsNull(col.values[i]) \/ IsIntegral(col.values[i])
    THEN AsInt64(col)
    ELSE col

\* the float branch: the one place where the two coercers differ
ConvertFloat(b, col) ==
    IF \A i \in 1..Len(col.values) :
            IsNull(col.values[i]) \/ IsIntegral(col.values[i])
    THEN AsInt64(col)
    ELSE IF b = "bq" THEN AsTypeStr(col) ELSE col

\* the timedelta branch
ConvertTimedelta(col) ==
    Column(col.name, "object",
           [i \in 1..Len(col.values) |->
               IF ~IsNull(col.values[i]) THEN Str(FloatRepr(col.values[i].v))
               ELSE None])

\* one iteration of the loop over df.columns
ConvertColumn(b, col) ==
    IF DropNa(col.values) = <<>> THEN AsTypeStr(col)
    ELSE CASE col.dtype = "float64" -> ConvertFloat(b, col)
           [] col.dtype = "category" -> AsTypeStr(col)
           [] col.dtype = "object" -> ConvertObject(col)
           [] col.dtype = "datetime64" ->
                Column(col.name, "object",
                       [i \in 1..Len(col.values) |-> StrfTime(col.values[i])])
           [] col.dtype = "timedelta64" -> ConvertTimedelta(col)
           [] col.dtype = "bool" -> col
           [] col.dtype \in {"int64", "Int64"} -> col
           [] OTHER -> AsTypeStr(col)

safe_convert_for_parquet(f) ==
    Frame([i \in 1..Len(f.cols) |-> ConvertColumn("bq", f.cols[i])], f.n)

safe_convert_for_mysql(f) ==
    Frame([i \in 1..Len(f.cols) |-> ConvertColumn("mysql", f.cols[i])], f.n)

safe_convert(b, f) ==
    IF b = "bq" THEN safe_convert_for_parquet(f) ELSE safe_convert_for_mysql(f)

-----------------------------------------------------------------------------
(* Destination type tags. *)
dtypes == {"float64", "int64", "Int64", "bool", "object", "category",
           "datetime64", "timedelta64", "string"}

get_bigquery_type(pandas_dtype) ==
    IF pandas_dtype = "datetime64" THEN "TIMESTAMP"
    ELSE IF pandas_dtype = "bool" THEN "BOOLEAN"
    ELSE IF pandas_dtype \in {"int64", "Int64"} THEN "INTEGER"
    ELSE IF pandas_dtype = "float64" THEN "FLOAT"
    ELSE "STRING"

\* Series.max() of integer cells, nulls skipped
MaxInt(values) ==
    LET vs == {values[i].v : i \in 1..Len(values)}
    IN  CHOOSE m \in vs : \A v \in vs : v <= m

RECURSIVE MaxLen(_)
\* Series.astype(str).str.len().max()
MaxLen(values) ==
    IF Len(values) = 1 THEN Len(StrOf(values[1]))
    ELSE LET m == MaxLen(Tail(values))
         IN  IF Len(StrOf(values[1])) >= m THEN Len(StrOf(values[1])) ELSE m

get_mysql_type(pandas_dtype, column_values) ==
    IF pandas_dtype = "datetime64" THEN "DATETIME"
    ELSE IF pandas_dtype = "bool" THEN "TINYINT(1)"
    ELSE IF pandas_dtype \in {"int64", "Int64"} THEN
        LET max_val == IF column_values # <<>> THEN MaxInt(DropNa(column_values))
                       ELSE 0
        IN  IF max_val <= 127 THEN "TINYINT"
            ELSE IF max_val <= 32767 THEN "SMALLINT"
            ELSE IF max_val <= 8388607 THEN "MEDIUMINT"
            ELSE IF max_val <= 2147483647 THEN "INT"
            ELSE "BIGINT"
    ELSE IF pandas_dtype = "float64" THEN "DOUBLE"
    ELSE LET non_null_values == DropNa(column_values)
         IN  IF Len(non_null_values) > 0 THEN
                 LET max_length == MaxLen(non_null_values)
                 IN  IF max_length <= 65535 THEN "TEXT"
                     ELSE IF max_length <= 16777215 THEN "MEDIUMTEXT"
                     ELSE "LONGTEXT"
             ELSE "VARCHAR(255)"

\* the type tag a backend derives for a coerced column
TypeTag(b, col) == IF b = "bq" THEN get_bigquery_type(col.dtype)
                   ELSE get_mysql_type(col.dtype, col.values)

-----------------------------------------------------------------------------
(* Column names. *)
N_id == <<"i", "d">>
N_created_at == <<"c", "r", "e", "a", "t", "e", "d", "_", "a", "t">>
N_amount == <<"a", "m", "o", "u", "n", "t">>
N_visit_date == <<"v", "i", "s", "i", "t", " ", "d", "a", "t", "e">>
N_Unnamed0 == <<"U", "n", "n", "a", "m", "e", "d", ":", " ", "0">>
N_note == <<"n", "o", "t", "e">>
P_unnamed == <<"u", "n", "n", "a", "m", "e", "d">>

\* the search without case=False
IsUnnamedCaseSensitive(name) == Contains(name, P_unnamed)

\* df.columns.str.contains('unnamed', case=False)
IsUnnamed(name) == Contains(Lower(name), Lower(P_unnamed))

\* df.drop(df.columns[...], axis=1, inplace=True)
DropUnnamed(f) ==
    Frame(SelectSeq2(f.cols, [i \in 1..Len(f.cols) |-> ~IsUnnamed(f.cols[i].name)]),
          f.n)

\* col.replace(' ', '_').replace('-', '_').replace('.', '_')
Sanitize(name) ==
    [i \in 1..Len(name) |-> IF name[i] \in {" ", "-", "."} THEN "_" ELSE name[i]]

\* the name a backend gives a column at the destination
DestName(b, name) == IF b = "mysql" THEN Sanitize(name) ELSE name

Names(f) == [i \in 1..Len(f.cols) |-> f.cols[i].name]
DestNames(b, f) == [i \in 1..Len(f.cols) |-> DestName(b, f.cols[i].name)]
SeqSet(s) == {s[i] : i \in 1..Len(s)}
HasDup(s) == Cardinality(SeqSet(s)) # Len(s)
SchemaNames == [i \in 1..Len(schema) |-> schema[i].name]
TypeOf(name) == schema[CHOOSE i \in 1..Len(schema) : schema[i].name = name].type

-----------------------------------------------------------------------------
(* Texts and frames the callers pass in. *)
S_canon == <<"2", "0", "2", "4", "-", "0", "1", "-", "1", "5", " ",
             "1", "0", ":", "3", "0", ":", "0", "0">>
S_short == <<"2", "0", "2", "4", "-", "1", "-", "5", " ", "1", ":", "2", ":", "3">>
S_na == <<"N", "/", "A">>
S_x == <<"x">>

F(t) == Cell("float", t)
I(n) == Cell("int", n)

\* integral amounts, with the index column a CSV round trip leaves behind
T_amount == Frame(<<Column(N_Unnamed0, "int64", <<I(0), I(1), I(2)>>),
                    Column(N_amount, "float64", <<F(100), F(200), F(300)>>)>>, 3)
\* a fractional amount and a new column whose name needs sanitizing
T_visit == Frame(<<Column(N_amount, "float64", <<F(100), F(305)>>),
                   Column(N_visit_date, "object", <<Str(S_canon), Str(S_na)>>)>>, 2)
\* a file that brings its own id column
T_id == Frame(<<Column(N_id, "int64", <<I(7), I(9)>>),
                Column(N_note, "object", <<Str(S_x), Str(S_x)>>)>>, 2)
\* a header-only file
T_empty == Frame(<<Column(N_amount, "float64", <<>>)>>, 0)

Inputs == {T_amount, T_visit, T_id, T_empty}

-----------------------------------------------------------------------------
(* insert_database. *)
batch_size == 1000

Min(a, b) == IF a <= b THEN a ELSE b

Ids(rs) == {rs[i].id : i \in 1..Len(rs)}

RECURSIVE MaxIdIn(_, _, _)
\* the largest id among rs[lo..hi], by halves
MaxIdIn(rs, lo, hi) ==
    IF lo = hi THEN rs[lo].id
    ELSE LET mid == (lo + hi) \div 2
             a == MaxIdIn(rs, lo, mid)
             b == MaxIdIn(rs, mid + 1, hi)
         IN  IF a >= b THEN a ELSE b

\* SELECT IFNULL(MAX(id), 0)
MaxIdOf(rs) == IF rs = <<>> THEN 0 ELSE MaxIdIn(rs, 1, Len(rs))

DdlEntry(op, call, cols, ok) == [op |-> op, call |-> call, cols |-> cols, ok |-> ok]

\* the call ends: what it returns
Return(p, r) == /\ pc' = [pc EXCEPT ![p] = "done"]
                /\ result' = [result EXCEPT ![p] = r]

Locals == <<callNo, data_frame, df, probe, existing_columns, colIdx, max_id, snap,
            start_idx>>
Table == <<tblExists, schema, rows, autoInc>>

\* lines 96-108 / 138-154: copy, drop unnamed columns, coerce, connect
Begin(p, t) ==
    /\ pc[p] \in {"idle", "done"}
    /\ nCalls < MaxCalls
    /\ nCalls' = nCalls + 1
    /\ callNo' = [callNo EXCEPT ![p] = nCalls + 1]
    /\ data_frame' = [data_frame EXCEPT ![p] = t]
    /\ df' = [df EXCEPT ![p] = safe_convert(backend, DropUnnamed(t))]
    /\ probe' = [probe EXCEPT ![p] = "none"]
    /\ existing_columns' = [existing_columns EXCEPT ![p] = {}]
    /\ colIdx' = [colIdx EXCEPT ![p] = 0]
    /\ max_id' = [max_id EXCEPT ![p] = 0]
    /\ snap' = [snap EXCEPT ![p] = 0]
    /\ start_idx' = [start_idx EXCEPT ![p] = 0]
    /\ result' = [result EXCEPT ![p] = "none"]
    /\ pc' = [pc EXCEPT ![p] = "probe"]
    /\ UNCHANGED <<backend, Table, ddlLog, coerceVars, typeVars>>

\* the same up to the connection, which cannot be made: the call returns
\* the failure without touching the destination, and its frame is gone
ConnectFails(p) ==
    /\ pc[p] \in {"idle", "done"}
    /\ nCalls < MaxCalls
    /\ nCalls' = nCalls + 1
    /\ callNo' = [callNo EXCEPT ![p] = nCalls + 1]
    /\ data_frame' = [data_frame EXCEPT ![p] = EmptyFrame]
    /\ df' = [df EXCEPT ![p] = EmptyFrame]
    /\ probe' = [probe EXCEPT ![p] = "none"]
    /\ existing_columns' = [existing_columns EXCEPT ![p] = {}]
    /\ colIdx' = [colIdx EXCEPT ![p] = 0]
    /\ max_id' = [max_id EXCEPT ![p] = 0]
    /\ snap' = [snap EXCEPT ![p] = 0]
    /\ start_idx' = [start_idx EXCEPT ![p] = 0]
    /\ Return(p, "error")
    /\ UNCHANGED <<backend, Table, ddlLog, coerceVars, typeVars>>

\* the existence probe answers: get_table / SHOW TABLES LIKE
ProbeOk(p) ==
    /\ pc[p] = "probe"
    /\ probe' = [probe EXCEPT ![p] = IF tblExists THEN "found" ELSE "absent"]
    /\ pc' = [pc EXCEPT ![p] = IF ~tblExists THEN "create"
                               ELSE IF backend = "bq" THEN "readmax"
                               ELSE "describe"]
    /\ UNCHANGED <<backend, Table, ddlLog, nCalls, callNo, data_frame, df,
                   existing_columns, colIdx, max_id, snap, start_idx, result,
                   coerceVars, typeVars>>

\* a probe error that ends the call on either backend
ProbeErrorAborts(p) ==
    /\ pc[p] = "probe"
    /\ probe' = [probe EXCEPT ![p] = "error"]
    /\ Return(p, "error")
    /\ UNCHANGED <<backend, Table, ddlLog, nCalls, callNo, data_frame, df,
                   existing_columns, colIdx, max_id, snap, start_idx, coerceVars, typeVars>>

\* the existence probe raises something other than not-found: BigQuery's bare
\* except takes it for absence, MySQL's lands in the outer handler
ProbeError(p) ==
    /\ pc[p] = "probe"
    /\ probe' = [probe EXCEPT ![p] = "error"]
    /\ IF backend = "bq"
       THEN pc' = [pc EXCEPT ![p] = "create"] /\ UNCHANGED result
       ELSE Return(p, "error")
    /\ UNCHANGED <<backend, Table, ddlLog, nCalls, callNo, data_frame, df,
                   existing_columns, colIdx, max_id, snap, start_idx, coerceVars, typeVars>>

\* the column list of the create-table call
CreateColumns(b, f) ==
    LET body == [i \in 1..Len(f.cols) |->
                    [name |-> DestName(b, f.cols[i].name),
                     type |-> TypeTag(b, f.cols[i])]]
    IN  IF b = "bq"
        THEN <<[name |-> N_id, type |-> "INTEGER"]>> \o body
                \o <<[name |-> N_created_at, type |-> "TIMESTAMP"]>>
        ELSE <<[name |-> N_id, type |-> "INT"]>> \o body
                \o <<[name |-> N_created_at, type |-> "TIMESTAMP"]>>

\* create-table that replaces a table already there
CreateReplaces(b, f) ==
    \/ HasDup([i \in 1..Len(CreateColumns(b, f)) |-> CreateColumns(b, f)[i].name])
    \/ b = "mysql" /\ f.cols = <<>>

\* the destination refuses a create-table: the table is there already, a
\* column name occurs twice, or (MySQL) the column list between id and
\* created_at is empty, which is a syntax error
CreateRefused(b, f) ==
    \/ tblExists
    \/ HasDup([i \in 1..Len(CreateColumns(b, f)) |-> CreateColumns(b, f)[i].name])
    \/ b = "mysql" /\ f.cols = <<>>

\* create_table / CREATE TABLE
Create(p) ==
    /\ pc[p] = "create"
    /\ ddlLog' = Append(ddlLog, DdlEntry("create", callNo[p],
                                         CreateColumns(backend, df[p]),
                                         ~CreateRefused(backend, df[p])))
    /\ IF CreateRefused(backend, df[p])
       THEN Return(p, "error") /\ UNCHANGED Table
       ELSE /\ tblExists' = TRUE
            /\ schema' = CreateColumns(backend, df[p])
            /\ rows' = <<>>
            /\ autoInc' = 1
            /\ pc' = [pc EXCEPT ![p] = "readmax"]
            /\ UNCHANGED result
    /\ UNCHANGED <<backend, nCalls, Locals, coerceVars, typeVars>>

\* whether column i of the frame gets an add-column call
NeedsAdd(f, existing, i) ==
    LET col_name == Sanitize(f.cols[i].name)
    IN  col_name \notin existing /\ col_name # N_id /\ col_name # N_created_at

\* the next column at or after position i that gets an add-column call,
\* Len + 1 when the loop is over
NextAdd(f, existing, i) ==
    IF \E j \in i..Len(f.cols) : NeedsAdd(f, existing, j)
    THEN CHOOSE j \in i..Len(f.cols) :
            /\ NeedsAdd(f, existing, j)
            /\ \A k \in i..(j - 1) : ~NeedsAdd(f, existing, k)
    ELSE Len(f.cols) + 1

\* DESCRIBE, and the loop up to its first ALTER TABLE
Describe(p) ==
    LET existing == SeqSet(SchemaNames)
        j == NextAdd(df[p], existing, 1)
    IN  /\ pc[p] = "describe"
        /\ existing_columns' = [existing_columns EXCEPT ![p] = existing]
        /\ colIdx' = [colIdx EXCEPT ![p] = j]
        /\ pc' = [pc EXCEPT ![p] = IF j <= Len(df[p].cols) THEN "alter" ELSE "readmax"]
        /\ UNCHANGED <<backend, Table, ddlLog, nCalls, callNo, data_frame, df, probe,
                       max_id, snap, start_idx, result, coerceVars, typeVars>>

\* ADD COLUMN placing the new column before the table's last column
AddedColumnBeforeLast(sch, c) ==
    SubSeq(sch, 1, Len(sch) - 1) \o <<c, sch[Len(sch)]>>

\* the schema after ALTER TABLE ... ADD COLUMN
AddedColumn(sch, c) == Append(sch, c)

\* ALTER TABLE ADD COLUMN for column colIdx, and the loop up to the next one
AddColumn(p) ==
    LET col == df[p].cols[colIdx[p]]
        c == [name |-> Sanitize(col.name), type |-> TypeTag("mysql", col)]
        refused == c.name \in SeqSet(SchemaNames)
        j == NextAdd(df[p], existing_columns[p], colIdx[p] + 1)
    IN  /\ pc[p] = "alter"
        /\ ddlLog' = Append(ddlLog, DdlEntry("add", callNo[p], <<c>>, ~refused))
        /\ IF refused
           THEN Return(p, "error") /\ UNCHANGED <<schema, colIdx>>
           ELSE /\ schema' = AddedColumn(schema, c)
                /\ colIdx' = [colIdx EXCEPT ![p] = j]
                /\ pc' = [pc EXCEPT ![p] = IF j <= Len(df[p].cols) THEN "alter"
                                           ELSE "readmax"]
                /\ UNCHANGED result
        /\ UNCHANGED <<backend, tblExists, rows, autoInc, nCalls, callNo, data_frame,
                       df, probe, existing_columns, max_id, snap, start_idx,
                       coerceVars, typeVars>>

\* SELECT IFNULL(MAX(id), 0); MySQL's batch loop does not run for an empty frame
ReadMax(p) ==
    /\ pc[p] = "readmax"
    /\ max_id' = [max_id EXCEPT ![p] = MaxIdOf(rows)]
    /\ snap' = [snap EXCEPT ![p] = Len(rows)]
    /\ IF backend = "mysql" /\ df[p].n = 0
       THEN Return(p, "ok")
       ELSE pc' = [pc EXCEPT ![p] = "append"] /\ UNCHANGED result
    /\ UNCHANGED <<backend, Table, ddlLog, nCalls, callNo, data_frame, df, probe,
                   existing_columns, colIdx, start_idx, coerceVars, typeVars>>

\* BigQuery: the frame the load job is given, id column first
LoadColumns(f) == <<N_id>> \o Names(f)

\* df.insert(0, "id", range(max_id + 1, max_id + 1 + len(df)))
RangeIds(m, n) == [i \in 1..n |-> m + i]

\* the rows an append adds, in input row order
NewRows(ids, call, first, cols) ==
    [i \in 1..Len(ids) |->
        [id |-> ids[i], call |-> call, idx |-> first + i - 1, cols |-> cols]]

\* the load job is refused: a column of the frame is not in the table, or
\* its type is not the table's (WRITE_APPEND without schema update options)
LoadRefused(f) ==
    \E i \in 1..Len(f.cols) :
        \/ f.cols[i].name \notin SeqSet(SchemaNames)
        \/ TypeOf(f.cols[i].name) # get_bigquery_type(f.cols[i].dtype)

\* Load with the ids taken from the table as it is when the rows arrive
LoadSerialized(p) ==
    /\ pc[p] = "append"
    /\ backend = "bq"
    /\ IF N_id \in SeqSet(Names(df[p])) \/ LoadRefused(df[p])
       THEN Return(p, "error") /\ UNCHANGED rows
       ELSE /\ rows' = rows \o NewRows(RangeIds(MaxIdOf(rows), df[p].n), callNo[p], 1,
                                       LoadColumns(df[p]))
            /\ Return(p, "ok")
    /\ UNCHANGED <<backend, tblExists, schema, autoInc, ddlLog, nCalls, Locals,
                   coerceVars, typeVars>>

\* lines 140-154: assign ids, load_table_from_dataframe, job.result()
Load(p) ==
    /\ pc[p] = "append"
    /\ backend = "bq"
    /\ IF N_id \in SeqSet(Names(df[p])) \/ LoadRefused(df[p])
       THEN Return(p, "error") /\ UNCHANGED rows
       ELSE /\ rows' = rows \o NewRows(RangeIds(max_id[p], df[p].n), callNo[p], 1,
                                       LoadColumns(df[p]))
            /\ Return(p, "ok")
    /\ UNCHANGED <<backend, tblExists, schema, autoInc, ddlLog, nCalls, Locals,
                   coerceVars, typeVars>>

RECURSIVE AutoIds(_, _)
\* the ids MySQL gives the rows of one INSERT: the value supplied for id, or
\* the AUTO_INCREMENT counter where none is supplied
AutoIds(cells, next) ==
    IF cells = <<>> THEN <<>>
    ELSE IF IsNull(cells[1]) THEN <<next>> \o AutoIds(Tail(cells), next + 1)
    ELSE <<cells[1].v>>
            \o AutoIds(Tail(cells), IF cells[1].v >= next THEN cells[1].v + 1 ELSE next)

\* the values the batch supplies for the id column: none unless the frame
\* has a column of that name
IdCells(f, start, stop) ==
    IF \E i \in 1..Len(f.cols) : Sanitize(f.cols[i].name) = N_id
    THEN SubSeq(f.cols[CHOOSE i \in 1..Len(f.cols) :
                            Sanitize(f.cols[i].name) = N_id].values,
                start + 1, stop)
    ELSE [i \in 1..(stop - start) |-> None]

BatchIds(f, start, stop, next) ==
    IF \E i \in 1..Len(f.cols) : Sanitize(f.cols[i].name) = N_id
    THEN AutoIds(IdCells(f, start, stop), next)
    ELSE [i \in 1..(stop - start) |-> next + i - 1]

\* INSERT is refused: a column is named twice or is not in the table, or an
\* id is already taken (PRIMARY KEY)
InsertRefused(f, ids) ==
    \/ HasDup(DestNames("mysql", f))
    \/ ~(SeqSet(DestNames("mysql", f)) \subseteq SeqSet(SchemaNames))
    \/ HasDup(ids)
    \/ Ids(rows) \cap SeqSet(ids) # {}

\* lines 199-219: one batch, executemany and commit; after the last batch the
\* call returns
InsertBatch(p) ==
    LET end_idx == Min(start_idx[p] + batch_size, df[p].n)
        ids == BatchIds(df[p], start_idx[p], end_idx, autoInc)
    IN  /\ pc[p] = "append"
        /\ backend = "mysql"
        /\ IF InsertRefused(df[p], ids)
           THEN Return(p, "error") /\ UNCHANGED <<rows, autoInc, start_idx>>
           ELSE /\ rows' = rows \o NewRows(ids, callNo[p], start_idx[p] + 1,
                                           DestNames("mysql", df[p]))
                /\ autoInc' = IF MaxIdOf(rows') >= autoInc THEN MaxIdOf(rows') + 1
                              ELSE autoInc
                /\ start_idx' = [start_idx EXCEPT ![p] = start_idx[p] + batch_size]
                /\ IF start_idx[p] + batch_size >= df[p].n
                   THEN Return(p, "ok")
                   ELSE UNCHANGED <<pc, result>>
        /\ UNCHANGED <<backend, tblExists, schema, ddlLog, nCalls, callNo,
                       data_frame, df, probe, existing_columns, colIdx, max_id, snap,
                       coerceVars, typeVars>>

\* a column of the frame whose derived type is not the table column's
TypeDiffers(f) ==
    \E i \in 1..Len(f.cols) :
        /\ Sanitize(f.cols[i].name) \in SeqSet(SchemaNames)
        /\ TypeOf(Sanitize(f.cols[i].name)) # TypeTag("mysql", f.cols[i])

\* the rejected batch undoes the batches the call committed before it
InsertBatchErrorRollsBack(p) ==
    /\ pc[p] = "append"
    /\ backend = "mysql"
    /\ TypeDiffers(df[p])
    /\ Return(p, "error")
    /\ rows' = SelectSeq(rows, LAMBDA r : r.call # callNo[p])
    /\ UNCHANGED <<backend, tblExists, schema, autoInc, ddlLog, nCalls, Locals,
                   coerceVars, typeVars>>

\* the server rejects a batch whose values do not fit the table's columns:
\* the error reaches the outer handler, earlier batches stay committed
InsertBatchError(p) ==
    /\ pc[p] = "append"
    /\ backend = "mysql"
    /\ TypeDiffers(df[p])
    /\ Return(p, "error")
    /\ UNCHANGED <<backend, Table, ddlLog, nCalls, Locals, coerceVars, typeVars>>

-----------------------------------------------------------------------------
(* The callers' specification. *)
InitMachine(b) ==
    /\ backend = b
    /\ tblExists = FALSE
    /\ schema = <<>>
    /\ rows = <<>>
    /\ autoInc = 1
    /\ ddlLog = <<>>
    /\ nCalls = 0
    /\ pc = [p \in Procs |-> "idle"]
    /\ callNo = [p \in Procs |-> 0]
    /\ data_frame = [p \in Procs |-> EmptyFrame]
    /\ df = [p \in Procs |-> EmptyFrame]
    /\ probe = [p \in Procs |-> "none"]
    /\ existing_columns = [p \in Procs |-> {}]
    /\ colIdx = [p \in Procs |-> 0]
    /\ max_id = [p \in Procs |-> 0]
    /\ snap = [p \in Procs |-> 0]
    /\ start_idx = [p \in Procs |-> 0]
    /\ result = [p \in Procs |-> "none"]

InitCoerce(bs, frames) ==
    /\ coercer \in bs
    /\ orig \in frames
    /\ prev = orig
    /\ frame = orig
    /\ passes = 0

\* no column under test
EmptyColumn == Column(N_amount, "int64", <<>>)

\* the mappers have not been called
NoType == [mysql |-> "none", bq |-> "none"]

InitType(columns) ==
    /\ int_col \in columns
    /\ sql_type = NoType

Init ==
    /\ \E b \in Backends : InitMachine(b)
    /\ InitCoerce({"none"}, {EmptyFrame})
    /\ InitType({EmptyColumn})

Next ==
    \E p \in Procs :
        \/ \E t \in Inputs : Begin(p, t)
        \/ ConnectFails(p)
        \/ ProbeOk(p)
        \/ ProbeError(p)
        \/ Create(p)
        \/ Describe(p)
        \/ AddColumn(p)
        \/ ReadMax(p)
        \/ Load(p)
        \/ InsertBatch(p)
        \/ InsertBatchError(p)

Spec == Init /\ [][Next]_vars

-----------------------------------------------------------------------------
(* The coercers on their own: frames of one column. *)
Seqs(S, n) == UNION {[1..k -> S] : k \in 0..n}

ValuesOf(dtype) ==
    CASE dtype = "float64" -> {NaN, F(100), F(200), F(305), Cell("fhuge", 0)}
      [] dtype = "object" -> {Str(S_canon), Str(S_short), Str(S_na), None, NaN,
                              Cell("list", <<1, 2>>)}
      [] dtype = "category" -> {Str(S_canon), Str(S_na), NaN}
      [] dtype = "datetime64" -> {Cell("ts", <<2024, 1, 15, 10, 30, 0>>), NaT}
      [] dtype = "timedelta64" -> {Cell("td", 900), NaT}
      [] dtype = "bool" -> {Cell("bool", TRUE), Cell("bool", FALSE)}
      [] dtype = "int64" -> {I(1), I(300)}
      [] dtype = "Int64" -> {I(1), NA}
      [] dtype = "string" -> {Str(S_x), NA}

CoerceInputs ==
    UNION {{Frame(<<Column(N_amount, d, v)>>, Len(v)) :
                v \in Seqs(ValuesOf(d), MaxRows)} : d \in dtypes}

\* one application of the coercer to the frame
Coerce ==
    /\ passes < MaxPasses
    /\ prev' = frame
    /\ frame' = safe_convert(coercer, frame)
    /\ passes' = passes + 1
    /\ UNCHANGED <<machineVars, coercer, orig, typeVars>>

InitC ==
    /\ InitMachine("none")
    /\ InitCoerce(Backends, CoerceInputs)
    /\ InitType({EmptyColumn})

NextC == Coerce

SpecCoerce == InitC /\ [][NextC]_vars

-----------------------------------------------------------------------------
(* The type mappers on their own: one integer column. *)

\* values on both sides of each rung of the ladder, of either sign
IntValues == {-40000, -129, -128, 0, 127, 128, 32767, 32768, 8388607, 8388608,
             2147483647}

IntColumns ==
    {Column(N_amount, "int64", [i \in 1..Len(v) |-> I(v[i])]) :
        v \in Seqs(IntValues, MaxRows)}

\* get_mysql_type and get_bigquery_type applied to the column
MapType ==
    /\ sql_type = NoType
    /\ sql_type' = [mysql |-> get_mysql_type(int_col.dtype, int_col.values),
                    bq |-> get_bigquery_type(int_col.dtype)]
    /\ UNCHANGED <<machineVars, coerceVars, int_col>>

InitT ==
    /\ InitMachine("none")
    /\ InitCoerce({"none"}, {EmptyFrame})
    /\ InitType(IntColumns)

NextT == MapType

SpecType == InitT /\ [][NextT]_vars

-----------------------------------------------------------------------------
(* insert_database of mysql_insert.py on frames of more than one batch. *)

\* a frame whose rows fill MaxBatches - 1 batches and start the last one
T_big ==
    LET n == (MaxBatches - 1) * batch_size + 1
    IN  Frame(<<Column(N_amount, "int64", [i \in 1..n |-> I(1)])>>, n)

BatchInputs == {T_big, T_visit}

InitB ==
    /\ InitMachine("mysql")
    /\ InitCoerce({"none"}, {EmptyFrame})
    /\ InitType({EmptyColumn})

\* batch_csv_to_mysql: one caller, one insert_database call after another
NextB ==
    \E p \in {1} :
        \/ \E t \in BatchInputs : Begin(p, t)
        \/ ConnectFails(p)
        \/ ProbeOk(p)
        \/ ProbeError(p)
        \/ Create(p)
        \/ Describe(p)
        \/ AddColumn(p)
        \/ ReadMax(p)
        \/ InsertBatch(p)
        \/ InsertBatchError(p)

SpecBatch == InitB /\ [][NextB]_vars

-----------------------------------------------------------------------------
(* Properties of insert_database, checked under Spec. *)

\* the rows call c has added, in table order
RowsOf(c) == SelectSeq(rows, LAMBDA r : r.call = c)

\* caller p's call has returned success
Succeeded(p) == pc[p] = "done" /\ result[p] = "ok"

\* no other call's rows landed between p's max-id read and p's rows: the
\* maximum p read is still the table's maximum when p's rows arrive
Undisturbed(p) ==
    \A i \in (snap[p] + 1)..Len(rows) :
        rows[i].call # callNo[p] => \A j \in i..Len(rows) : rows[j].call # callNo[p]

HasDupIds == \E i, j \in 1..Len(rows) : i < j /\ rows[i].id = rows[j].id

(* C1: for each backend, a successful load of N rows into a table whose     *)
(* maximum id is M appends exactly N rows whose ids are M+1, ..., M+N, in   *)
(* input row order.                                                        *)
C1_IdsFollowMax ==
    \A p \in Procs :
        (Succeeded(p) /\ Undisturbed(p)) =>
            LET mine == RowsOf(callNo[p])
            IN  /\ Len(mine) = df[p].n
                /\ \A i \in 1..Len(mine) :
                        mine[i].id = max_id[p] + i /\ mine[i].idx = i

(* C2: for each backend, once the schema step of a call has run, the        *)
(* destination table exists and its column names include every column of   *)
(* the coerced frame (as the backend spells it), new columns of an existing *)
(* table having been added.                                                *)
C2_SchemaCoversFrame ==
    \A p \in Procs :
        pc[p] = "readmax" =>
            /\ tblExists
            /\ SeqSet(DestNames(backend, df[p])) \subseteq SeqSet(SchemaNames)

\* p and q both read the maximum id before either appended, and both have
\* appended at least one row
RacedDone(p, q) ==
    /\ p # q
    /\ Succeeded(p) /\ Succeeded(q)
    /\ df[p].n >= 1 /\ df[q].n >= 1
    /\ \A i \in 1..Len(rows) :
            rows[i].call \in {callNo[p], callNo[q]} => i > snap[p] /\ i > snap[q]

(* C3 as stated: for each backend, two calls that both read the maximum id  *)
(* before either appends leave two rows with the same id in the table.      *)
C3_RaceDuplicatesEveryBackend ==
    \A p, q \in Procs : RacedDone(p, q) => HasDupIds

(* C3 as amended: in BigQuery two such calls leave two rows with the same   *)
(* id; in MySQL the ids come from the AUTO_INCREMENT primary key and no two *)
(* rows of the table ever share an id.                                     *)
C3_RaceDuplicatesBigQueryOnly ==
    /\ backend = "bq" => \A p, q \in Procs : RacedDone(p, q) => HasDupIds
    /\ backend = "mysql" => ~HasDupIds

C3_Witness == backend = "bq" /\ RacedDone(1, 2) /\ HasDupIds

(* C4 as stated: the table's first column is id and its last column is      *)
(* created_at, after any sequence of calls.                                *)
C4_IdFirstCreatedAtLast ==
    tblExists =>
        /\ schema[1].name = N_id
        /\ schema[Len(schema)].name = N_created_at

\* the DDL calls the destination accepted
Accepted(op) == SelectSeq(ddlLog, LAMBDA e : e.op = op /\ e.ok)

RECURSIVE Flatten(_)
Flatten(es) == IF es = <<>> THEN <<>> ELSE es[1].cols \o Flatten(Tail(es))

(* C4 as amended: the table's columns are those of the one accepted         *)
(* create-table call, id first and created_at last among them, followed by  *)
(* the columns of the accepted add-column calls in the order issued; so     *)
(* created_at is last until MySQL adds a column, and BigQuery adds none.    *)
C4_CreatedAtLastUntilExtended ==
    tblExists =>
        /\ Len(Accepted("create")) = 1
        /\ LET created == Accepted("create")[1].cols
           IN  /\ created[1].name = N_id
               /\ created[Len(created)].name = N_created_at
               /\ schema = created \o Flatten(Accepted("add"))
        /\ backend = "bq" => Accepted("add") = <<>>

C4_Witness ==
    /\ tblExists
    /\ Accepted("add") # <<>>
    /\ schema[Len(schema)].name # N_created_at

(* C5: a step never drops, renames or retypes a column of the table: the    *)
(* table stays, and its columns before the step are its first columns,      *)
(* with the same type tags, after the step.                                *)
C5_SchemaOnlyGrows ==
    [][tblExists =>
          /\ tblExists'
          /\ Len(schema') >= Len(schema)
          /\ SubSeq(schema', 1, Len(schema)) = schema]_vars

\* a call is past its schema step on a table it found, with a column whose
\* derived type is not the type of the table's column of that name
C5_Witness ==
    \E p \in Procs :
        /\ pc[p] \in {"readmax", "append"}
        /\ probe[p] = "found"
        /\ \E i \in 1..Len(df[p].cols) :
                /\ DestName(backend, df[p].cols[i].name) \in SeqSet(SchemaNames)
                /\ TypeOf(DestName(backend, df[p].cols[i].name))
                        # TypeTag(backend, df[p].cols[i])

\* the create-table calls caller p's current call has issued
CreatesOf(p) == SelectSeq(ddlLog, LAMBDA e : e.op = "create" /\ e.call = callNo[p])

(* C7 as stated: for each backend, a call whose existence probe failed      *)
(* goes on to issue a create-table call.                                   *)
C7_ProbeErrorCreatesEveryBackend ==
    \A p \in Procs :
        probe[p] = "error" => pc[p] = "create" \/ CreatesOf(p) # <<>>

(* C7 as amended: in BigQuery a call whose existence probe failed goes on   *)
(* to issue a create-table call; in MySQL it returns the error and issues   *)
(* no create-table or add-column call.                                     *)
C7_ProbeErrorCreatesBigQueryOnly ==
    \A p \in Procs :
        probe[p] = "error" =>
            IF backend = "bq"
            THEN pc[p] = "create" \/ CreatesOf(p) # <<>>
            ELSE /\ pc[p] = "done"
                 /\ result[p] = "error"
                 /\ \A i \in 1..Len(ddlLog) : ddlLog[i].call # callNo[p]

\* BigQuery: the probe failed on a table that exists, and the create-table
\* call was issued and refused
C7_Witness ==
    \E p \in Procs :
        /\ backend = "bq"
        /\ probe[p] = "error"
        /\ CreatesOf(p) # <<>>
        /\ ~CreatesOf(p)[1].ok

\* "unnamed" occurs in the name, each letter in either case
P_UNNAMED == <<"U", "N", "N", "A", "M", "E", "D">>
MentionsUnnamed(name) ==
    \E i \in 1..(Len(name) - 6) :
        \A k \in 1..7 : name[i + k - 1] \in {P_unnamed[k], P_UNNAMED[k]}

(* C10: for each backend, the columns of the coerced frame are the input's  *)
(* columns whose name does not contain "unnamed" in any letter case, in     *)
(* the input's order; no create-table or add-column call and no appended    *)
(* row names a column that contains it.                                    *)
C10_UnnamedDropped ==
    /\ \A p \in Procs :
          pc[p] # "idle" =>
              Names(df[p]) = SelectSeq(Names(data_frame[p]),
                                       LAMBDA nm : ~MentionsUnnamed(nm))
    /\ \A i \in 1..Len(ddlLog) : \A j \in 1..Len(ddlLog[i].cols) :
          ~MentionsUnnamed(ddlLog[i].cols[j].name)
    /\ \A i \in 1..Len(rows) : \A j \in 1..Len(rows[i].cols) :
          ~MentionsUnnamed(rows[i].cols[j])

\* a frame with an unnamed column has been loaded
C10_Witness ==
    \E p \in Procs :
        /\ Succeeded(p)
        /\ \E i \in 1..Len(data_frame[p].cols) :
                MentionsUnnamed(data_frame[p].cols[i].name)
        /\ RowsOf(callNo[p]) # <<>>

-----------------------------------------------------------------------------
(* Properties of the coercers, checked under SpecCoerce. *)
InVals == orig.cols[1].values
OutVals == frame.cols[1].values

(* C6: applying a coercer to its own output yields that output again.       *)
C6_Idempotent == passes = 2 => frame = prev

\* the canonical text a timestamp text of the drawn values stands for
S_short_canon == <<"2", "0", "2", "4", "-", "0", "1", "-", "0", "5", " ",
                   "0", "1", ":", "0", "2", ":", "0", "3">>
Parseable(c) == c \in {Str(S_canon), Str(S_short)}
CanonOf(c) == IF c = Str(S_canon) THEN Str(S_canon) ELSE Str(S_short_canon)

(* C8: for an object column with at least one value that parses as a        *)
(* timestamp, both coercers output, row by row, the canonical text of each  *)
(* value that parses (the input text itself when it was canonical) and null *)
(* for each value that does not; when no value parses, every value is       *)
(* stringified.                                                            *)
C8_TimestampColumn ==
    (passes = 1 /\ orig.cols[1].dtype = "object") =>
        /\ Len(OutVals) = Len(InVals)
        /\ IF \E i \in 1..Len(InVals) : Parseable(InVals[i])
           THEN \A i \in 1..Len(InVals) :
                    IF Parseable(InVals[i]) THEN OutVals[i] = CanonOf(InVals[i])
                    ELSE IsNull(OutVals[i])
           ELSE \A i \in 1..Len(InVals) : OutVals[i] = Str(StrOf(InVals[i]))

C8_Witness ==
    /\ passes = 1
    /\ orig.cols[1].dtype = "object"
    /\ InVals = <<Str(S_canon), Str(S_na)>>
    /\ OutVals = <<Str(S_canon), NaN>>

\* what the claim says of a float column with a non-null value; fits tells
\* whether the nullable-integer conversion takes the column's integral values
FloatColumnAsClaimed(fits) ==
    (passes = 1 /\ orig.cols[1].dtype = "float64"
        /\ \E i \in 1..Len(InVals) : ~IsNull(InVals[i])) =>
        IF \A i \in 1..Len(InVals) :
                \/ IsNull(InVals[i])
                \/ InVals[i].k = "fhuge"
                \/ InVals[i].k = "float" /\ InVals[i].v % 10 = 0
        THEN IF fits
             THEN /\ frame.cols[1].dtype = "Int64"
                  /\ Len(OutVals) = Len(InVals)
                  /\ \A i \in 1..Len(InVals) :
                        IF IsNull(InVals[i]) THEN IsNull(OutVals[i])
                        ELSE OutVals[i] = I(InVals[i].v \div 10)
             ELSE /\ frame.cols[1].dtype = "object"
                  /\ OutVals = [i \in 1..Len(InVals) |-> Str(StrOf(InVals[i]))]
        ELSE IF coercer = "bq"
             THEN /\ frame.cols[1].dtype = "object"
                  /\ OutVals = [i \in 1..Len(InVals) |-> Str(StrOf(InVals[i]))]
             ELSE frame = orig

(* C9 as stated: a float column with a non-null value whose non-null values *)
(* are all integral becomes a nullable-integer column with the same values  *)
(* and nulls in both coercers; otherwise BigQuery's coercer outputs text    *)
(* and MySQL's leaves the column as it is.                                 *)
C9_FloatColumn == FloatColumnAsClaimed(TRUE)

(* C9 as amended: the same, for integral values within the signed 64-bit    *)
(* range; when every non-null value is integral and one is outside that     *)
(* range, both coercers output the column as text.                         *)
C9_FloatColumnInRange ==
    FloatColumnAsClaimed(\A i \in 1..Len(InVals) : InVals[i].k # "fhuge")

S_10_0 == <<"1", "0", ".", "0">>
S_20_0 == <<"2", "0", ".", "0">>
S_30_5 == <<"3", "0", ".", "5">>
C9_Witness ==
    /\ passes = 1
    /\ coercer = "bq"
    /\ orig.cols[1].dtype = "float64"
    /\ InVals = <<F(100), F(200), F(305)>>
    /\ OutVals = <<Str(S_10_0), Str(S_20_0), Str(S_30_5)>>

-----------------------------------------------------------------------------
(* Properties of the type mappers, checked under SpecType. *)

\* the integer ladder, narrowest first
IntLadder == <<"TINYINT", "SMALLINT", "MEDIUMINT", "INT", "BIGINT">>

\* the signed range of a rung holds v
Holds(tag, v) ==
    CASE tag = "TINYINT" -> -128 <= v /\ v <= 127
      [] tag = "SMALLINT" -> -32768 <= v /\ v <= 32767
      [] tag = "MEDIUMINT" -> -8388608 <= v /\ v <= 8388607
      [] tag = "INT" -> -2147483647 - 1 <= v /\ v <= 2147483647
      [] tag = "BIGINT" -> TRUE

HoldsAll(tag, col) == \A i \in 1..Len(col.values) : Holds(tag, col.values[i].v)

\* the narrowest rung whose signed range holds every value of the column
SmallestHolding(col) ==
    IntLadder[CHOOSE k \in 1..Len(IntLadder) :
                  /\ HoldsAll(IntLadder[k], col)
                  /\ \A j \in 1..(k - 1) : ~HoldsAll(IntLadder[j], col)]

\* C11: for an integer column get_mysql_type returns the narrowest rung of
\* TINYINT < SMALLINT < MEDIUMINT < INT < BIGINT whose signed range holds
\* every value of the column, negative values of large magnitude included,
\* and get_bigquery_type returns INTEGER.
C11_SmallestWidthHoldsAll ==
    sql_type # NoType =>
        /\ sql_type.mysql = SmallestHolding(int_col)
        /\ sql_type.bq = "INTEGER"

-----------------------------------------------------------------------------
(* Properties of the batched insert, checked under SpecBatch. *)

\* the rows call c has added are the first rows of its frame, in order
InInputOrder(c) ==
    LET mine == RowsOf(c)
    IN  \A i \in 1..Len(mine) : mine[i].idx = i

\* the rows of the caller's current call are rows 1..m of its frame, in order
IsInputPrefix(p, m) == Len(RowsOf(callNo[p])) = m /\ InInputOrder(callNo[p])

\* batches of the caller's current call that have been committed
Committed(p) == start_idx[p] \div batch_size

\* C12: MySQL insert_database writes the rows in consecutive batches of at
\* most 1000 in input order and commits each: at every moment, and after the
\* call has returned, the rows it added are exactly the rows of the first k
\* batches; a call that succeeds has added every row, and a call in which
\* batch k+1 fails returns the error and leaves the k batches in the table;
\* the rows of earlier calls stay as they were left.
C12_CommittedBatchesStay ==
    backend = "mysql" =>
        \A p \in Procs :
            /\ start_idx[p] = Committed(p) * batch_size
            /\ IsInputPrefix(p, Min(Committed(p) * batch_size, df[p].n))
            /\ Succeeded(p) => IsInputPrefix(p, df[p].n)
            /\ pc[p] = "done" => result[p] \in {"ok", "error"}
            /\ \A c \in 1..nCalls : InInputOrder(c)

\* a call of two batches failed in the second: the first 1000 rows stay
C12_Witness ==
    /\ backend = "mysql"
    /\ pc[1] = "done"
    /\ result[1] = "error"
    /\ df[1].n > batch_size
    /\ Committed(1) = 1
    /\ IsInputPrefix(1, batch_size)

=============================================================================
